---- MODULE Spec2Model ----
(***************************************************************************)
(* A model of package files (src/files/files.go): the directory accessor   *)
(* Dir (Get, Glob), the file collection Files (AsConfig, AsSecrets) and    *)
(* the format functions (ToYaml, FromYaml, ToToml, ToJson, FromJson).      *)
(*                                                                         *)
(* Representation.  A Go string holding file content or a file name is a   *)
(* sequence of bytes.  A path string is the sequence of its elements, the  *)
(* pieces between separators: "base/sub/a.txt" is <<"base","sub","a.txt">> *)
(* and "." is << >>.  All paths are relative to the working directory of   *)
(* the process; nothing is known to exist above it.                        *)
(*                                                                         *)
(* The libraries the package calls (path/filepath, io/ioutil, glog, yaml,  *)
(* json, toml) are modelled by their documented contracts at the call      *)
(* sites of files.go.                                                      *)
(***************************************************************************)
EXTENDS Integers, Sequences, FiniteSets, TLC

VARIABLES
  fs,      \* the file system under the working directory, fixed for a render
  dir,     \* the receiver of Get and Glob: a Dir, the base directory
  files,   \* the Files value the template holds (nil, or a map)
  pc,      \* "running", or "exited" once glog.Exitf ended the process
  call,    \* the operation that ran last and its argument
  ret,     \* what that operation returned, NoRet if it did not return
  reads,   \* the paths that operation handed to ioutil.ReadFile, in order
  codec    \* the calls that operation made to a marshal/unmarshal library

vars == <<fs, dir, files, pc, call, ret, reads, codec>>

----------------------------------------------------------------------------
(* Bounds *)

\* The longest name or pattern, in path elements, given to Get and Glob.
MaxLen == 2

----------------------------------------------------------------------------
(* Paths: path/filepath as used on lines 49, 66, 107 and 135 *)

\* File and directory names, in the order os.File.Readdirnames + sort.Strings
\* (filepath.glob) lists them.
NameOrder == <<"a.txt", "b.txt", "base", "sub">>

Names == {NameOrder[i] : i \in 1..Len(NameOrder)}

\* The elements a name or a pattern is written with.
Elems == {"a.txt", "sub", "..", "*", "["}

SeqsUpTo(S, n) == UNION {[1..k -> S] : k \in 0..n}

Front(s) == SubSeq(s, 1, Len(s) - 1)

Last(s) == s[Len(s)]

\* One element of filepath.Clean's scan of a relative path: "." and empty
\* elements vanish, ".." removes the element before it, and is kept when there
\* is none to remove.
CleanStep(out, e) ==
  IF e = "." \/ e = "" THEN out
  ELSE IF e = ".."
    THEN IF Len(out) > 0 /\ Last(out) # ".." THEN Front(out)
         ELSE Append(out, e)
    ELSE Append(out, e)

RECURSIVE CleanFrom(_, _)
CleanFrom(out, rest) ==
  IF rest = << >> THEN out
  ELSE CleanFrom(CleanStep(out, Head(rest)), Tail(rest))

\* filepath.Clean
Clean(p) == CleanFrom(<< >>, p)

\* filepath.Join(a, b): the elements joined by the separator, then Clean.
JoinRaw(a, b) == a \o b

Join(a, b) == Clean(JoinRaw(a, b))

\* Base gone wrong: the first element instead of the last.
BaseFirst(p) == IF p = << >> THEN "." ELSE p[1]

\* filepath.Base: the last element; "." for the empty path.
Base(p) == IF p = << >> THEN "." ELSE Last(p)

IsPrefix(d, p) == Len(d) <= Len(p) /\ SubSeq(p, 1, Len(d)) = d

----------------------------------------------------------------------------
(* The file system: io/ioutil.ReadFile (lines 50, 75) and the Lstat and    *)
(* directory listing done inside filepath.Glob (line 67)                   *)

\* File contents: "X", "hi".
Contents == {<<88>>, <<104, 105>>}

\* The places where a file may be.  The first lies outside the directory base.
CandidateFiles ==
  {<<"a.txt">>, <<"base", "a.txt">>, <<"base", "sub", "a.txt">>,
   <<"base", "sub", "b.txt">>}

Absent == [kind |-> "absent", data |-> << >>]

Unreadable == [kind |-> "unreadable", data |-> << >>]

Readable(c) == [kind |-> "file", data |-> c]

FileStates == {Absent, Unreadable} \cup {Readable(c) : c \in Contents}

\* The file systems a render may find.
FileSystems ==
  {f \in [CandidateFiles -> FileStates] :
     /\ f[<<"a.txt">>] \in {Absent, Readable(<<88>>)}
     /\ f[<<"base", "a.txt">>] # Readable(<<88>>)
     /\ f[<<"base", "sub", "a.txt">>] \in {Absent, Readable(<<88>>)}
     /\ f[<<"base", "sub", "b.txt">>] # Readable(<<88>>)}

\* What is at path p: "file" (readable or not), "dir" or "absent".
Kind(p) ==
  IF p \in CandidateFiles
    THEN IF fs[p].kind = "absent" THEN "absent" ELSE "file"
  ELSE IF \A i \in 1..Len(p) : p[i] = ".." THEN "dir"
  ELSE IF \E q \in CandidateFiles :
            fs[q].kind # "absent" /\ IsPrefix(p, q) /\ p # q THEN "dir"
  ELSE "absent"

\* ioutil.ReadFile(p): the bytes of a readable file, an error for anything
\* else (a missing path, a directory, a file without read permission).
ReadFile(p) ==
  IF p \in CandidateFiles /\ fs[p].kind = "file"
    THEN [err |-> FALSE, data |-> fs[p].data]
    ELSE [err |-> TRUE, data |-> << >>]

----------------------------------------------------------------------------
(* filepath.Glob and filepath.Match, as called on line 67 *)

HasMeta(e) == e \in {"*", "["}

\* filepath.Match on one element: "*" matches every name, "[" opens a
\* character class that is never closed (ErrBadPattern), anything else
\* matches itself.
Match(e, n) == e = "*" \/ e = n

Malformed(p) == \E i \in 1..Len(p) : p[i] = "["

RECURSIVE Concat(_)
Concat(ss) == IF ss = << >> THEN << >> ELSE Head(ss) \o Concat(Tail(ss))

\* filepath.glob(d, e): the entries of directory d whose name matches e, in
\* sorted order; nothing when d is not a directory.
GlobDir(d, e) ==
  IF Kind(d) # "dir" THEN << >>
  ELSE LET hit(n) == Match(e, n) /\ Kind(Append(d, n)) # "absent"
           ns == SelectSeq(NameOrder, hit)
       IN  [i \in 1..Len(ns) |-> Append(d, ns[i])]

\* The matches of a well-formed pattern: a pattern without metacharacters
\* matches itself when it exists; otherwise the directory part is expanded
\* first and the last element is matched in each directory found.
RECURSIVE GlobMatches(_)
GlobMatches(p) ==
  IF \A i \in 1..Len(p) : ~HasMeta(p[i])
    THEN IF Kind(p) # "absent" THEN <<p>> ELSE << >>
    ELSE LET ds == GlobMatches(Front(p))
         IN  Concat([i \in 1..Len(ds) |-> GlobDir(ds[i], Last(p))])

\* filepath.Glob(p): "The only possible returned error is ErrBadPattern, when
\* pattern is malformed"; file system errors are ignored.
FilepathGlob(p) ==
  IF Malformed(p) THEN [err |-> TRUE, matches |-> << >>]
  ELSE [err |-> FALSE, matches |-> GlobMatches(p)]

----------------------------------------------------------------------------
(* Values *)

NoRet == [kind |-> "none"]

Str(b) == [kind |-> "string", val |-> b]

\* A Files value: nil, or a map from path strings to contents.
NilFiles == [nil |-> TRUE, m |-> << >>]

MakeFiles(m) == [nil |-> FALSE, m |-> m]

EmptyMap == [k \in {} |-> << >>]

\* m[k] = v
MapSet(m, k, v) == [x \in DOMAIN m \cup {k} |-> IF x = k THEN v ELSE m[x]]

\* The outcome of a call: exit is TRUE when glog.Exitf ended the process
\* inside it, and then there is no value.
Returned(v, rs, cs) == [exit |-> FALSE, val |-> v, reads |-> rs, codec |-> cs]

Exited(rs) == [exit |-> TRUE, val |-> NoRet, reads |-> rs, codec |-> << >>]

----------------------------------------------------------------------------
(* Dir: lines 48-82 *)

\* Get gone wrong: the name is read as it is, not joined to the directory.
DirGetNoJoin(d, name) ==
  LET p == Clean(name)
      r == ReadFile(p)
  IN  IF r.err THEN Exited(<<p>>)
      ELSE Returned(Str(r.data), <<p>>, << >>)

\* func (dir Dir) Get(name string) string
DirGet(d, name) ==
  LET p == Join(d, name)
      r == ReadFile(p)
  IN  IF r.err THEN Exited(<<p>>)
      ELSE Returned(Str(r.data), <<p>>, << >>)

\* The loop of Glob gone wrong: a match that cannot be read is skipped.
RECURSIVE GlobLoopSkip(_, _, _)
GlobLoopSkip(matches, m, rs) ==
  IF matches = << >> THEN Returned(MakeFiles(m), rs, << >>)
  ELSE LET f == Head(matches)
           r == ReadFile(f)
       IN  IF r.err THEN GlobLoopSkip(Tail(matches), m, Append(rs, f))
           ELSE GlobLoopSkip(Tail(matches), MapSet(m, f, r.data),
                             Append(rs, f))

\* The loop of Glob, lines 74-80: read each match into m, leave the process
\* at the first one that cannot be read.
RECURSIVE GlobLoop(_, _, _)
GlobLoop(matches, m, rs) ==
  IF matches = << >> THEN Returned(MakeFiles(m), rs, << >>)
  ELSE LET f == Head(matches)
           r == ReadFile(f)
       IN  IF r.err THEN Exited(Append(rs, f))
           ELSE GlobLoop(Tail(matches), MapSet(m, f, r.data), Append(rs, f))

\* Glob gone wrong: the pattern is matched as it is, not joined to the
\* directory.
DirGlobNoJoin(d, pattern) ==
  LET p == Clean(pattern)
      g == FilepathGlob(p)
  IN  IF g.err THEN Exited(<< >>)
      ELSE GlobLoop(g.matches, EmptyMap, << >>)

\* func (dir Dir) Glob(pattern string) Files
DirGlob(d, pattern) ==
  LET p == Join(d, pattern)
      g == FilepathGlob(p)
  IN  IF g.err THEN Exited(<< >>)
      ELSE GlobLoop(g.matches, EmptyMap, << >>)

----------------------------------------------------------------------------
(* Text.  The marshalled form of a map of strings, byte for byte, for keys *)
(* and values that need no quoting                                         *)

\* The keys a marshalled map may have, in the order the encoders sort them.
KeyOrder == <<".", "..", "Error", "a.txt", "b.txt", "base", "j", "k", "sub">>

\* The bytes of a key.
KeyBytes(k) ==
  CASE k = "." -> <<46>>
    [] k = ".." -> <<46, 46>>
    [] k = "Error" -> <<69, 114, 114, 111, 114>>
    [] k = "a.txt" -> <<97, 46, 116, 120, 116>>
    [] k = "b.txt" -> <<98, 46, 116, 120, 116>>
    [] k = "base" -> <<98, 97, 115, 101>>
    [] k = "j" -> <<106>>
    [] k = "k" -> <<107>>
    [] k = "sub" -> <<115, 117, 98>>

\* The keys of m, sorted.
SortedKeys(m) == SelectSeq(KeyOrder, LAMBDA k : k \in DOMAIN m)

\* base64.StdEncoding's alphabet: A-Z, a-z, 0-9, + and /.
B64Char(i) ==
  IF i < 26 THEN 65 + i
  ELSE IF i < 52 THEN 97 + (i - 26)
  ELSE IF i < 62 THEN 48 + (i - 52)
  ELSE IF i = 62 THEN 43 ELSE 47

\* base64.StdEncoding.EncodeToString, line 135: three bytes make four
\* characters; a last group of one or two bytes is padded with "=".
RECURSIVE EncodeToString(_)
EncodeToString(b) ==
  IF Len(b) = 0 THEN << >>
  ELSE IF Len(b) = 1 THEN
    LET n == b[1] * 65536
    IN  <<B64Char(n \div 262144), B64Char((n \div 4096) % 64), 61, 61>>
  ELSE IF Len(b) = 2 THEN
    LET n == b[1] * 65536 + b[2] * 256
    IN  <<B64Char(n \div 262144), B64Char((n \div 4096) % 64),
          B64Char((n \div 64) % 64), 61>>
  ELSE
    LET n == b[1] * 65536 + b[2] * 256 + b[3]
    IN  <<B64Char(n \div 262144), B64Char((n \div 4096) % 64),
          B64Char((n \div 64) % 64), B64Char(n % 64)>>
        \o EncodeToString(SubSeq(b, 4, Len(b)))

\* A YAML scalar: plain, or "" for the empty string.
YamlScalar(v) == IF v = << >> THEN <<34, 34>> ELSE v

\* What yaml.Marshal writes for a map of strings: "{}\n" for the empty map,
\* else one "key: value\n" line per key, keys sorted.
YamlText(m) ==
  IF DOMAIN m = {} THEN <<123, 125, 10>>
  ELSE LET ks == SortedKeys(m)
       IN  Concat([i \in 1..Len(ks) |->
             KeyBytes(ks[i]) \o <<58, 32>> \o YamlScalar(m[ks[i]]) \o <<10>>])

\* What json.Marshal writes for a map of strings: {"key":"value",...}.
JsonText(m) ==
  LET ks == SortedKeys(m)
  IN  <<123>>
      \o Concat([i \in 1..Len(ks) |->
           (IF i > 1 THEN <<44>> ELSE << >>)
           \o <<34>> \o KeyBytes(ks[i]) \o <<34, 58, 34>> \o m[ks[i]] \o <<34>>])
      \o <<125>>

\* What toml.Encoder.Encode writes for a map of strings: key = "value" lines.
TomlText(m) ==
  LET ks == SortedKeys(m)
  IN  Concat([i \in 1..Len(ks) |->
        KeyBytes(ks[i]) \o <<32, 61, 32, 34>> \o m[ks[i]] \o <<34, 10>>])

----------------------------------------------------------------------------
(* The marshal and unmarshal libraries, as called on lines 161, 179, 192,  *)
(* 204 and 221                                                             *)

\* The values a template hands to ToYaml, ToToml and ToJson: a map of
\* strings, a string, or a value whose marshal method returns an error.
MapValue(m) == [kind |-> "map", m |-> m, s |-> << >>]

ScalarValue(b) == [kind |-> "scalar", m |-> << >>, s |-> b]

BadValue == [kind |-> "unmarshalable", m |-> << >>, s |-> << >>]

\* err.Error(): a description that starts with the library's name.
ErrorText(lib) ==
  CASE lib = "yaml" -> <<121, 97, 109, 108, 58>>
    [] lib = "json" -> <<106, 115, 111, 110, 58>>
    [] lib = "toml" -> <<116, 111, 109, 108, 58>>

Ok(data) == [err |-> FALSE, data |-> data, msg |-> << >>]

Fail(lib) == [err |-> TRUE, data |-> << >>, msg |-> ErrorText(lib)]

\* yaml.Marshal(v)
YamlMarshal(v) ==
  CASE v.kind = "map" -> Ok(YamlText(v.m))
    [] v.kind = "scalar" -> Ok(YamlScalar(v.s) \o <<10>>)
    [] OTHER -> Fail("yaml")

\* json.Marshal(v)
JsonMarshal(v) ==
  CASE v.kind = "map" -> Ok(JsonText(v.m))
    [] v.kind = "scalar" -> Ok(<<34>> \o v.s \o <<34>>)
    [] OTHER -> Fail("json")

\* toml.NewEncoder(b).Encode(v) and b.String(): a top-level value must be a
\* table, so a string is an error too.
TomlEncode(v) ==
  CASE v.kind = "map" -> Ok(TomlText(v.m))
    [] OTHER -> Fail("toml")

\* A document given to FromYaml or FromJson, by what the parser finds in it:
\* text that does not parse, a top-level value that is no mapping, or a
\* mapping whose entries each fit the target map[string]interface{} or not
\* (a key that is a sequence in YAML, a number out of range in JSON).
Entry(k, v, fits) == [key |-> k, val |-> v, fits |-> fits]

Document(parses, top, es) == [parses |-> parses, top |-> top, entries |-> es]

\* The decoder's walk over a mapping: an entry that fits is stored in m, one
\* that does not is skipped and reported when the walk is over.
RECURSIVE Decode(_, _, _)
Decode(es, m, bad) ==
  IF es = << >> THEN [m |-> m, bad |-> bad]
  ELSE LET e == Head(es)
       IN  IF e.fits THEN Decode(Tail(es), MapSet(m, e.key, e.val), bad)
           ELSE Decode(Tail(es), m, TRUE)

\* yaml.Unmarshal([]byte(str), &m) and json.Unmarshal([]byte(str), &m): a
\* syntax error is found before anything is stored; a type error is returned
\* after decoding went on "partially until the end" (yaml), "as best it can"
\* (json).
Unmarshal(lib, doc, m) ==
  IF ~doc.parses \/ doc.top # "mapping"
    THEN [err |-> TRUE, msg |-> ErrorText(lib), m |-> m]
    ELSE LET d == Decode(doc.entries, m, FALSE)
         IN  [err |-> d.bad, msg |-> IF d.bad THEN ErrorText(lib) ELSE << >>,
              m |-> d.m]

LibCall(fn, arg) == [fn |-> fn, arg |-> arg]

----------------------------------------------------------------------------
(* The format functions: lines 160-225 *)

MapRet(m) == [kind |-> "map", val |-> m]

\* func ToYaml(v interface{}) string
ToYaml(v) ==
  LET r == YamlMarshal(v)
      cs == <<LibCall("yaml.Marshal", v)>>
  IN  IF r.err THEN Returned(Str(<< >>), << >>, cs)
      ELSE Returned(Str(r.data), << >>, cs)

\* FromYaml gone wrong: the error is dropped.
FromYamlNoErrorKey(str) ==
  LET r == Unmarshal("yaml", str, EmptyMap)
      cs == <<LibCall("yaml.Unmarshal", str)>>
  IN  Returned(MapRet(r.m), << >>, cs)

\* func FromYaml(str string) map[string]interface{}
FromYaml(str) ==
  LET r == Unmarshal("yaml", str, EmptyMap)
      cs == <<LibCall("yaml.Unmarshal", str)>>
  IN  IF r.err THEN Returned(MapRet(MapSet(r.m, "Error", r.msg)), << >>, cs)
      ELSE Returned(MapRet(r.m), << >>, cs)

\* ToToml gone wrong: the empty string on failure, as ToYaml and ToJson.
ToTomlEmptyOnError(v) ==
  LET r == TomlEncode(v)
      cs == <<LibCall("toml.Encode", v)>>
  IN  IF r.err THEN Returned(Str(<< >>), << >>, cs)
      ELSE Returned(Str(r.data), << >>, cs)

\* func ToToml(v interface{}) string
ToToml(v) ==
  LET r == TomlEncode(v)
      cs == <<LibCall("toml.Encode", v)>>
  IN  IF r.err THEN Returned(Str(r.msg), << >>, cs)
      ELSE Returned(Str(r.data), << >>, cs)

\* func ToJson(v interface{}) string
ToJson(v) ==
  LET r == JsonMarshal(v)
      cs == <<LibCall("json.Marshal", v)>>
  IN  IF r.err THEN Returned(Str(<< >>), << >>, cs)
      ELSE Returned(Str(r.data), << >>, cs)

\* func FromJson(str string) map[string]interface{}
FromJson(str) ==
  LET r == Unmarshal("json", str, EmptyMap)
      cs == <<LibCall("json.Unmarshal", str)>>
  IN  IF r.err THEN Returned(MapRet(MapSet(r.m, "Error", r.msg)), << >>, cs)
      ELSE Returned(MapRet(r.m), << >>, cs)

----------------------------------------------------------------------------
(* Files: lines 98-139 *)

\* The orders in which a range over a map with key set S may visit it: Go
\* leaves the iteration order of a map unspecified, and it varies from one
\* range to the next.
Orders(S) ==
  {o \in [1..Cardinality(S) -> S] :
     \A i, j \in 1..Cardinality(S) : o[i] = o[j] => i = j}

\* The loop of AsConfig gone wrong: entries that share a base name are merged.
RECURSIVE ConfigLoopMerge(_, _, _)
ConfigLoopMerge(f, order, m) ==
  IF order = << >> THEN m
  ELSE LET k == Head(order)
           v == IF Base(k) \in DOMAIN m THEN m[Base(k)] \o f[k] ELSE f[k]
       IN  ConfigLoopMerge(f, Tail(order), MapSet(m, Base(k), v))

\* The loop of AsConfig, lines 106-108.
RECURSIVE ConfigLoop(_, _, _)
ConfigLoop(f, order, m) ==
  IF order = << >> THEN m
  ELSE LET k == Head(order)
       IN  ConfigLoop(f, Tail(order), MapSet(m, Base(k), f[k]))

\* The loop of AsSecrets, lines 134-136.
RECURSIVE SecretsLoop(_, _, _)
SecretsLoop(f, order, m) ==
  IF order = << >> THEN m
  ELSE LET k == Head(order)
       IN  SecretsLoop(f, Tail(order),
                       MapSet(m, Base(k), EncodeToString(f[k])))

\* AsConfig gone wrong: no test for nil.
FilesAsConfigNoNilCheck(f, order) ==
  ToYaml(MapValue(ConfigLoop(f.m, order, EmptyMap)))

\* func (f Files) AsConfig() string, the range visiting f in the given order
FilesAsConfig(f, order) ==
  IF f.nil THEN Returned(Str(<< >>), << >>, << >>)
  ELSE ToYaml(MapValue(ConfigLoop(f.m, order, EmptyMap)))

\* func (f Files) AsSecrets() string, the range visiting f in the given order
FilesAsSecrets(f, order) ==
  IF f.nil THEN Returned(Str(<< >>), << >>, << >>)
  ELSE ToYaml(MapValue(SecretsLoop(f.m, order, EmptyMap)))

----------------------------------------------------------------------------
(* The inputs of the operations *)

\* The most entries a Files value given to AsConfig and AsSecrets has.
MaxKeys == 2

\* The most entries a mapping given to FromYaml and FromJson has.
MaxEntries == 2

\* Contents of a Files value: "", "X", "hi", "hello".
FileTexts == {<< >>, <<88>>, <<104, 105>>, <<104, 101, 108, 108, 111>>}

\* Keys of a Files value: "", "a.txt", "base/a.txt", "sub/a.txt", "sub/b.txt".
FileKeys ==
  {<< >>, <<"a.txt">>, <<"base", "a.txt">>, <<"sub", "a.txt">>,
   <<"sub", "b.txt">>}

Collections ==
  {NilFiles} \cup
  UNION {{MakeFiles(m) : m \in [S -> FileTexts]} :
           S \in {T \in SUBSET FileKeys : Cardinality(T) <= MaxKeys}}

Values ==
  {BadValue} \cup {ScalarValue(b) : b \in Contents} \cup
  UNION {{MapValue(m) : m \in [S -> Contents]} : S \in SUBSET {"j", "k"}}

Entries ==
  {Entry(k, v, fits) : k \in {"k", "Error"}, v \in Contents, fits \in BOOLEAN}

Documents ==
  {Document(FALSE, "mapping", << >>), Document(TRUE, "sequence", << >>)} \cup
  {Document(TRUE, "mapping", es) : es \in SeqsUpTo(Entries, MaxEntries)}

----------------------------------------------------------------------------
(* The render: a template calls the operations one after another *)

\* What a call leaves behind: its result, or the end of the process.
Finish(op, arg, out) ==
  /\ call' = [op |-> op, arg |-> arg]
  /\ ret' = out.val
  /\ reads' = out.reads
  /\ codec' = out.codec
  /\ pc' = IF out.exit THEN "exited" ELSE "running"

\* {{ .Files.Get name }}: name is any name, or a key of the collection the
\* template ranges over (the usage in Glob's doc comment, lines 62-64).
Get ==
  /\ pc = "running"
  /\ \E name \in SeqsUpTo(Elems, MaxLen) \cup DOMAIN files.m :
        Finish("Get", name, DirGet(dir, name))
  /\ UNCHANGED <<fs, dir, files>>

\* {{ .Files.Glob pattern }}: the template keeps the collection returned.
Glob ==
  /\ pc = "running"
  /\ \E pattern \in SeqsUpTo(Elems, MaxLen) :
        LET out == DirGlob(dir, pattern)
        IN  /\ Finish("Glob", pattern, out)
            /\ files' = IF out.exit THEN files ELSE out.val
  /\ UNCHANGED <<fs, dir>>

\* {{ (.Files.Glob pattern).AsConfig }}, on the collection the template holds
AsConfig ==
  /\ pc = "running"
  /\ \E order \in Orders(DOMAIN files.m) :
        Finish("AsConfig", files, FilesAsConfig(files, order))
  /\ UNCHANGED <<fs, dir, files>>

\* {{ (.Files.Glob pattern).AsSecrets }}
AsSecrets ==
  /\ pc = "running"
  /\ \E order \in Orders(DOMAIN files.m) :
        Finish("AsSecrets", files, FilesAsSecrets(files, order))
  /\ UNCHANGED <<fs, dir, files>>

\* {{ toYaml v }}
CallToYaml ==
  /\ pc = "running"
  /\ \E v \in Values : Finish("ToYaml", v, ToYaml(v))
  /\ UNCHANGED <<fs, dir, files>>

\* {{ fromYaml str }}
CallFromYaml ==
  /\ pc = "running"
  /\ \E str \in Documents : Finish("FromYaml", str, FromYaml(str))
  /\ UNCHANGED <<fs, dir, files>>

\* {{ toToml v }}
CallToToml ==
  /\ pc = "running"
  /\ \E v \in Values : Finish("ToToml", v, ToToml(v))
  /\ UNCHANGED <<fs, dir, files>>

\* {{ toJson v }}
CallToJson ==
  /\ pc = "running"
  /\ \E v \in Values : Finish("ToJson", v, ToJson(v))
  /\ UNCHANGED <<fs, dir, files>>

\* {{ fromJson str }}
CallFromJson ==
  /\ pc = "running"
  /\ \E str \in Documents : Finish("FromJson", str, FromJson(str))
  /\ UNCHANGED <<fs, dir, files>>

Init ==
  /\ fs \in FileSystems
  /\ dir \in {<< >>, <<"base">>}
  /\ files = NilFiles
  /\ pc = "running"
  /\ call = [op |-> "none", arg |-> << >>]
  /\ ret = NoRet
  /\ reads = << >>
  /\ codec = << >>

Next == Get \/ Glob \/ AsConfig \/ AsSecrets

\* A render that reads files and turns what Glob returned into a block.
Spec == Init /\ [][Next]_vars

\* A template working on a Files value of any content, however it was built.
InitFiles ==
  /\ fs = [p \in CandidateFiles |-> Absent]
  /\ dir = << >>
  /\ files \in Collections
  /\ pc = "running"
  /\ call = [op |-> "none", arg |-> << >>]
  /\ ret = NoRet
  /\ reads = << >>
  /\ codec = << >>

NextFiles == AsConfig \/ AsSecrets

SpecFiles == InitFiles /\ [][NextFiles]_vars

\* A template converting values with the format functions.
InitCodec ==
  /\ fs = [p \in CandidateFiles |-> Absent]
  /\ dir = << >>
  /\ files = NilFiles
  /\ pc = "running"
  /\ call = [op |-> "none", arg |-> << >>]
  /\ ret = NoRet
  /\ reads = << >>
  /\ codec = << >>

NextCodec ==
  CallToYaml \/ CallFromYaml \/ CallToToml \/ CallToJson \/ CallFromJson

SpecCodec == InitCodec /\ [][NextCodec]_vars

----------------------------------------------------------------------------
(* Properties *)

CanRead(p) == p \in CandidateFiles /\ fs[p].kind = "file"

\* Whether the last call is one of ops.
Called(ops) == call.op \in ops

MatchSet(p) ==
  LET known == UNION {{SubSeq(q, 1, n) : n \in 0..Len(q)} :
                        q \in CandidateFiles} \cup {p}
  IN  {q \in known :
         /\ Len(q) = Len(p)
         /\ \A i \in 1..Len(p) : (p[i] = "*" /\ q[i] \in Names) \/ q[i] = p[i]
         /\ Kind(q) # "absent"}

RECURSIVE Walk(_, _)
Walk(at, rest) ==
  IF rest = << >> THEN [found |-> TRUE, path |-> at]
  ELSE IF Kind(at) # "dir" THEN [found |-> FALSE, path |-> at]
  ELSE IF Head(rest) = ".."
    THEN IF at = << >> \/ Last(at) = ".."
           THEN Walk(Append(at, ".."), Tail(rest))
           ELSE Walk(Front(at), Tail(rest))
    ELSE Walk(Append(at, Head(rest)), Tail(rest))

\* C2: for every base directory D, name b and content c such that a readable
\* file with content c exists at b under D, Dir(D).Get(b) returns exactly c
\* and does not end the process.
C2_GetReturnsContent ==
  Called({"Get"}) =>
    LET w == Walk(<< >>, dir \o call.arg)
    IN  (w.found /\ CanRead(w.path)) =>
          (pc = "running" /\ ret.kind = "string" /\ ret.val = fs[w.path].data)

\* C2 witness: Get returned the content of a file two levels below the base.
C2_Witness ==
  /\ Called({"Get"}) /\ pc = "running" /\ dir = <<"base">>
  /\ call.arg = <<"sub", "a.txt">> /\ ret.val = <<88>>

\* C3: when every matched path is readable, Glob returns a collection whose
\* keys are exactly the paths matching join(base, pattern), each the resolved
\* path and each holding that file's content; with no match it returns an
\* empty collection that is not nil, and the process goes on.
C3_GlobReturnsMatches ==
  (Called({"Glob"}) /\ ~Malformed(Join(dir, call.arg))) =>
    LET ms == MatchSet(Join(dir, call.arg))
    IN  (\A q \in ms : CanRead(q)) =>
          /\ pc = "running"
          /\ ret = files
          /\ ~ret.nil
          /\ DOMAIN ret.m = ms
          /\ \A q \in ms : ret.m[q] = fs[q].data

\* C3 witness: Glob returned a collection of two files.
C3_Witness ==
  Called({"Glob"}) /\ pc = "running" /\ Cardinality(DOMAIN ret.m) = 2

\* C4: AsConfig and AsSecrets on a nil Files both return the empty string,
\* without failing and without calling the YAML codec.
C4_NilIsEmptyString ==
  (Called({"AsConfig", "AsSecrets"}) /\ call.arg.nil) =>
    (pc = "running" /\ ret.kind = "string" /\ Len(ret.val) = 0 /\ codec = << >>)

\* C4 witness: AsSecrets ran on nil.
C4_Witness == Called({"AsSecrets"}) /\ call.arg.nil /\ pc = "running"

\* The last segment of a key; "." for the empty key.
LastSegment(k) == IF Len(k) = 0 THEN "." ELSE k[Len(k)]

\* The maps that keep one entry of f for each base name.
Flattenings(f) ==
  LET bs == {LastSegment(k) : k \in DOMAIN f}
  IN  {m \in [bs -> {f[k] : k \in DOMAIN f}] :
         \A b \in bs : \E k \in DOMAIN f : LastSegment(k) = b /\ m[b] = f[k]}

\* C5: for every collection that is not nil, the map AsConfig (AsSecrets)
\* hands to the YAML codec has as keys exactly the base names of the
\* collection's keys, and under each base name the content (the standard
\* base64 encoding of the content) of one entry with that base name; entries
\* sharing a base name collapse into one key, without merge or error.
C5_FlattenByBaseName ==
  (Called({"AsConfig", "AsSecrets"}) /\ ~call.arg.nil) =>
    /\ pc = "running" /\ ret.kind = "string"
    /\ Len(codec) = 1 /\ codec[1].fn = "yaml.Marshal"
    /\ LET f == call.arg.m
           m == codec[1].arg.m
       IN  /\ DOMAIN m = {LastSegment(k) : k \in DOMAIN f}
           /\ \A b \in DOMAIN m : \E k \in DOMAIN f :
                /\ LastSegment(k) = b
                /\ m[b] = IF call.op = "AsConfig" THEN f[k]
                          ELSE EncodeToString(f[k])
                /\ (call.op = "AsSecrets" /\ f[k] = <<104, 101, 108, 108, 111>>)
                     => m[b] = <<97, 71, 86, 115, 98, 71, 56, 61>>

\* C5 witness: AsSecrets ran on two entries that share a base name.
C5_Witness ==
  /\ Called({"AsSecrets"}) /\ ~call.arg.nil
  /\ Cardinality(DOMAIN call.arg.m) = 2
  /\ Cardinality(DOMAIN codec[1].arg.m) = 1

\* What the marshal library of a To function answers for v.
Marshalled(op, v) ==
  CASE op = "ToYaml" -> YamlMarshal(v)
    [] op = "ToJson" -> JsonMarshal(v)
    [] op = "ToToml" -> TomlEncode(v)

Unmarshalled(op, str) ==
  Unmarshal(IF op = "FromYaml" THEN "yaml" ELSE "json", str, EmptyMap)

\* C7 as stated: when unmarshalling fails, FromYaml and FromJson return a map
\* with the single key "Error", whatever was decoded before the failure.
C7_OnlyErrorKey ==
  (Called({"FromYaml", "FromJson"}) /\ Unmarshalled(call.op, call.arg).err) =>
    /\ pc = "running" /\ ret.kind = "map"
    /\ DOMAIN ret.val = {"Error"}
    /\ Len(ret.val["Error"]) > 0

\* The entries of a mapping that the decoder stores under key k.
Stored(doc, k) ==
  {i \in 1..Len(doc.entries) : doc.entries[i].fits /\ doc.entries[i].key = k}

\* The largest member of a set of indices that is not empty.
MaxOf(S) == CHOOSE i \in S : \A j \in S : j <= i

\* C7, amended: when unmarshalling fails, FromYaml and FromJson do not end
\* the render but return a map in which "Error" holds the description of the
\* error, which is not empty; the other keys of that map are the keys the
\* decoder stored before it reported the failure, each with the value decoded
\* for it last, and there is none when the text does not parse or is no
\* mapping.
C7_ErrorKeyInserted ==
  (Called({"FromYaml", "FromJson"}) /\ Unmarshalled(call.op, call.arg).err) =>
    /\ pc = "running" /\ ret.kind = "map"
    /\ "Error" \in DOMAIN ret.val
    /\ ret.val["Error"] = Unmarshalled(call.op, call.arg).msg
    /\ Len(ret.val["Error"]) > 0
    /\ IF ~call.arg.parses \/ call.arg.top # "mapping"
         THEN DOMAIN ret.val = {"Error"}
         ELSE \A k \in (DOMAIN ret.val \cup
                          {call.arg.entries[i].key :
                             i \in 1..Len(call.arg.entries)}) \ {"Error"} :
                /\ k \in DOMAIN ret.val <=> Stored(call.arg, k) # {}
                /\ k \in DOMAIN ret.val =>
                     ret.val[k] = call.arg.entries[MaxOf(Stored(call.arg, k))].val

\* C7 witness: a mapping failed to decode after one of its entries was stored.
C7_Witness ==
  /\ Called({"FromYaml"}) /\ Unmarshalled(call.op, call.arg).err
  /\ DOMAIN ret.val = {"Error", "k"}

\* C8: each key of Dir(D).Glob(pattern) can be passed back to Dir(D).Get,
\* which returns the content the collection holds under that key and does
\* not end the process.
C8_GetOfGlobKey ==
  (Called({"Get"}) /\ ~files.nil /\ call.arg \in DOMAIN files.m) =>
    (pc = "running" /\ ret.kind = "string" /\ ret.val = files.m[call.arg])

\* Whether path p lies inside directory d.
Inside(d, p) == IsPrefix(d, p) /\ (p = << >> \/ p[1] # "..")

\* C9: for every base directory and every name or pattern given to Get or
\* Glob, every file that is read lies inside the base directory.
C9_ReadsStayInside ==
  (Called({"Get", "Glob"}) /\ pc = "running") =>
    \A i \in 1..Len(reads) : Inside(dir, reads[i])

\* C10 as stated: two calls of AsConfig on the same collection return the
\* same string, also when keys share a base name.
C10_SameResultEveryCall ==
  [][(call.op = "AsConfig" /\ call'.op = "AsConfig" /\ call'.arg = call.arg)
       => ret' = ret]_vars

\* C10, amended: on a collection in which keys share a base name, each call
\* of AsConfig returns the YAML text of a map that keeps, under every base
\* name, the content of one of the entries with that base name; which one is
\* not fixed, so two calls on the same collection may return different
\* strings.  When no two keys share a base name there is one such map, and
\* every call returns the same string.
C10_OneEntryWins ==
  (Called({"AsConfig"}) /\ ~call.arg.nil) =>
    /\ ret.kind = "string"
    /\ \E m \in Flattenings(call.arg.m) : ret.val = YamlText(m)

\* C10 witness: AsConfig ran on {"base/a.txt": "X", "sub/a.txt": "hi"} and
\* the second entry won.
C10_Witness ==
  /\ Called({"AsConfig"}) /\ ~call.arg.nil
  /\ call.arg.m = [k \in {<<"base", "a.txt">>, <<"sub", "a.txt">>} |->
                     IF k[1] = "base" THEN <<88>> ELSE <<104, 105>>]
  /\ ret.val = <<97, 46, 116, 120, 116, 58, 32, 104, 105, 10>>

====
